---- MODULE Spec2Model ----
(***************************************************************************)
(* A model of the sjtuq package: the SJTUQuestionnaire client              *)
(* (src/sjtuq/__init__.py) and the query parameter classes                 *)
(* (src/sjtuq/param.py).                                                   *)
(*                                                                         *)
(* Python values are modelled as follows.  A str is a sequence of          *)
(* one-character (or one-word) symbols.  A dict of request parameters is a *)
(* function from key names to values.  A server response is a record whose *)
(* fields are the keys of the decoded JSON body.                           *)
(***************************************************************************)
EXTENDS Integers, Sequences, FiniteSets, TLC

VARIABLES
    url,          \* SJTUQuestionnaire.url (a str), <<>> while there is no client
    pc,           \* position of the calling thread
    op,           \* the method being called: "get_data" / "get_all_data"
    params,       \* the params argument of the call
    sort,         \* the sort argument of the call
    pool_size,    \* the pool_size argument of the call (0 stands for None)
    params_copy,  \* the dict params_copy of get_all_data (params of get_data)
    total,        \* the local total of get_all_data
    i,            \* the loop variable of the dispatch loop
    responses,    \* the list responses: one AsyncResult (job) per submission
    submitted,    \* per job, the value of params_copy when apply_async was called
    taskqueue,    \* jobs handed to the pool, their arguments not yet pickled
    inqueue,      \* pickled tasks waiting for a worker process
    workers,      \* per worker process: the task whose request is in flight
    results,      \* per job: the value its AsyncResult holds
    completed,    \* the jobs in the order their results arrived
    requests,     \* every HTTP GET issued so far, in order
    probe,        \* the probe's response, as get_all_data read it
    ret,          \* what the call returned or raised
    server_total, \* the number of answers the questionnaire holds on the server
    url_or_key,   \* the url_or_key argument the client was constructed from
    logger_arg,   \* the logger argument: "None", "Logger", or another type
    logger,       \* SJTUQuestionnaire.logger
    has_logger,   \* SJTUQuestionnaire.has_logger
    q_pc,         \* position of the code using a Query
    query,        \* the Query object: its param and its sort
    json          \* what Query.to_json returned or raised

\* the client object and the arguments it was constructed from
clientVars == <<url, url_or_key, logger_arg, logger, has_logger>>

\* the state of one call of get_data or get_all_data
callVars == <<op, params, sort, pool_size, params_copy, total, i, responses,
              submitted, taskqueue, inqueue, workers, results, completed,
              requests, probe, server_total>>

\* the state of the code using the classes of param.py
queryVars == <<q_pc, query, json>>

vars == <<clientVars, callVars, queryVars, pc, ret>>

----------------------------------------------------------------------------
(* Bounds of the model *)

\* the server's totals are 0, 50, 100, ..., 50 * MaxHalfPages
MaxHalfPages == 5

\* mp.cpu_count() of the machine the model runs on
CpuCount == 2

----------------------------------------------------------------------------
(* Python dicts *)

EmptyDict == [k \in {} |-> 0]

Put(d, k, v) == [x \in (DOMAIN d) \cup {k} |-> IF x = k THEN v ELSE d[x]]

Has(d, k) == k \in DOMAIN d

----------------------------------------------------------------------------
(* What a call returns *)

\* no Query object
NoQuery == [none |-> TRUE]

NoReturn == [kind |-> "none"]

Returns(v) == [kind |-> "value", val |-> v]

Raises(e) == [kind |-> "raise", exc |-> e]

----------------------------------------------------------------------------
(* SJTUQuestionnaire.__init__ *)

\* the length of a key
KeyLen == 32

HexDigits == {"0", "1", "2", "3", "4", "5", "6", "7", "8", "9",
              "a", "b", "c", "d", "e", "f"}

\* "https://wj.sjtu.edu.cn/api/v1/public/export/"
ApiPrefix ==
    <<"h", "t", "t", "p", "s", ":", "/", "/", "w", "j", ".",
      "s", "j", "t", "u", ".", "e", "d", "u", ".", "c", "n",
      "/", "a", "p", "i", "/", "v", "1", "/", "p", "u", "b",
      "l", "i", "c", "/", "e", "x", "p", "o", "r", "t", "/">>

\* "/json"
ApiSuffix == <<"/", "j", "s", "o", "n">>

\* sjtu_questionnaire_api_format_url.format(key=key)
FormatUrl(key) == ApiPrefix \o key \o ApiSuffix

\* s.startswith(p)
StartsWith(s, p) == Len(s) >= Len(p) /\ SubSeq(s, 1, Len(p)) = p

IsUrl(arg) == arg.type = "str" /\ StartsWith(arg.s, ApiPrefix)

\* a variant of IsKey: the hexadecimal digits are accepted in either case
IsKeyAnyCase(arg) ==
    /\ arg.type = "str"
    /\ Len(arg.s) = KeyLen
    /\ \A k \in 1..Len(arg.s) :
          arg.s[k] \in HexDigits \cup {"A", "B", "C", "D", "E", "F"}

IsKey(arg) ==
    /\ arg.type = "str"
    /\ Len(arg.s) = KeyLen
    /\ \A k \in 1..Len(arg.s) : arg.s[k] \in HexDigits

\* the first if/elif chain of __init__: the url, or the exception raised
InitUrl(arg) ==
    IF IsUrl(arg) THEN Returns(arg.s)
    ELSE IF IsKey(arg) THEN Returns(FormatUrl(arg.s))
    ELSE IF arg.type = "str" THEN Raises("ValueError")
    ELSE Raises("TypeError")

\* the second if/elif chain of __init__: has_logger, or the exception raised
InitLogger(lg) ==
    IF lg = "Logger" THEN Returns(TRUE)
    ELSE IF lg = "None" THEN Returns(FALSE)
    ELSE Raises("TypeError")

NoClient == <<>>

\* SJTUQuestionnaire(arg, lg)
New(arg, lg) ==
    /\ pc = "new"
    /\ url_or_key' = arg
    /\ logger_arg' = lg
    /\ LET u == InitUrl(arg)
           l == InitLogger(lg)
       IN  IF u.kind = "raise"
           THEN /\ ret' = u
                /\ pc' = "raised"
                /\ UNCHANGED <<url, logger, has_logger>>
           ELSE IF l.kind = "raise"
           THEN /\ ret' = l
                /\ pc' = "raised"
                /\ UNCHANGED <<url, logger, has_logger>>
           ELSE /\ url' = u.val
                /\ logger' = lg
                /\ has_logger' = l.val
                /\ pc' = "idle"
                /\ UNCHANGED ret
    /\ UNCHANGED <<queryVars, callVars>>

----------------------------------------------------------------------------
(* The server behind the export API *)

\* the page size get_all_data asks for
PageSize == 100

Min(a, b) == IF a < b THEN a ELSE b

Max(a, b) == IF a > b THEN a ELSE b

\* rows are numbered 1..T in the order of the sort; page c of size n holds
\* the rows (c-1)*n+1 .. min(c*n, T)
Rows(current, pageSize, T) ==
    LET lo == (current - 1) * pageSize
        n  == Max(0, Min(pageSize, T - lo))
    IN  [k \in 1..n |-> lo + k]

OkResponse(p) ==
    [success |-> TRUE,
     data |-> [total |-> server_total,
               rows |-> IF Has(p, "current") /\ Has(p, "pageSize")
                        THEN Rows(p["current"], p["pageSize"], server_total)
                        ELSE <<>>]]

\* a body the server sends with a status code other than 200
BadResponses == {[success |-> FALSE, message |-> "error"], [message |-> "error"]}

ServerResponses(p) == {OkResponse(p)} \cup BadResponses

\* no response received yet
NoResponse == [none |-> TRUE]

----------------------------------------------------------------------------
(* SJTUQuestionnaire.get_data *)

\* an argument passed as params: a dict, None, or a value of another type
DictArg(d) == [type |-> "dict", d |-> d]

NoneArg == [type |-> "None", d |-> EmptyDict]

ListArg == [type |-> "list", d |-> EmptyDict]

ParamsValid(p) == p.type \in {"None", "dict"}

\* a variant of SortValid: the sort value is not checked
SortValidAny(s) == TRUE

SortValid(s) == s \in {"asc", "desc"}

\* the type and value check both methods start with
ArgsValid(p, s) == ParamsValid(p) /\ SortValid(s)

\* params after the check: None is treated as an empty dict
ParamsDict(p) == IF p.type = "None" THEN EmptyDict ELSE p.d

\* the GET request get_data sends: url and the values real_params encodes
Request(d, s) == [url |-> url, params |-> d, sort |-> [id |-> s]]

CallGetData(p, s) ==
    /\ pc = "idle"
    /\ op' = "get_data"
    /\ params' = p
    /\ sort' = s
    /\ IF ~ArgsValid(p, s)
       THEN /\ ret' = Raises("ValueError")
            /\ pc' = "done"
            /\ UNCHANGED <<params_copy, requests>>
       ELSE /\ params_copy' = ParamsDict(p)
            /\ requests' = Append(requests, Request(ParamsDict(p), s))
            /\ pc' = "get_data"
            /\ UNCHANGED ret
    /\ UNCHANGED <<queryVars, clientVars, pool_size, total, i, responses,
                   submitted, taskqueue, inqueue, workers, results, completed,
                   probe, server_total>>

GetDataResponse(resp) ==
    /\ pc = "get_data"
    /\ resp \in ServerResponses(params_copy)
    /\ ret' = Returns(resp)
    /\ pc' = "done"
    /\ UNCHANGED <<queryVars, clientVars, op, params, sort, pool_size,
                   params_copy, total, i, responses, submitted, taskqueue,
                   inqueue, workers, results, completed, requests, probe,
                   server_total>>

----------------------------------------------------------------------------
(* SJTUQuestionnaire.get_all_data *)

\* the parameters of the probe: pageSize and current are overridden
ProbeParams(d) == Put(Put(d, "pageSize", 1), "current", 1)

\* a variant of ProbeOk: the key is looked for, its value is not read
ProbeOkLoose(resp) == Has(resp, "success")

\* "success" in response and response["success"]
ProbeOk(resp) == Has(resp, "success") /\ resp.success

\* a variant of LastPage: one page more than the ceiling of total/100
LastPageCeil(t) == ((t + PageSize - 1) \div PageSize) + 1

\* a variant of LastPage: range(1, int(total/100)+1)
LastPageNoExtra(t) == t \div PageSize

\* the last value of range(1, int(total/100)+2)
LastPage(t) == (t \div PageSize) + 1

\* mp.Pool(processes=...): the number of worker processes
PoolProcesses(ps) == CpuCount

Idle == [job |-> 0]

CallGetAllData(p, s, ps) ==
    /\ pc = "idle"
    /\ op' = "get_all_data"
    /\ params' = p
    /\ sort' = s
    /\ pool_size' = ps
    /\ IF ~ArgsValid(p, s)
       THEN /\ ret' = Raises("ValueError")
            /\ pc' = "done"
            /\ UNCHANGED <<params_copy, requests>>
       ELSE /\ params_copy' = ProbeParams(ParamsDict(p))
            /\ requests' = Append(requests, Request(ProbeParams(ParamsDict(p)), s))
            /\ pc' = "probe"
            /\ UNCHANGED ret
    /\ UNCHANGED <<queryVars, clientVars, total, i, responses, submitted,
                   taskqueue, inqueue, workers, results, completed, probe,
                   server_total>>

\* the probe's response arrives; get_all_data runs on to the dispatch loop
ProbeResponse(resp) ==
    /\ pc = "probe"
    /\ resp \in ServerResponses(params_copy)
    /\ probe' = resp
    /\ IF ~ProbeOk(resp)
       THEN /\ ret' = Returns(<<>>)
            /\ pc' = "done"
            /\ UNCHANGED <<params_copy, total, i, workers>>
       ELSE IF ~(Has(resp, "data") /\ Has(resp.data, "total"))
       THEN /\ ret' = Raises("KeyError")
            /\ pc' = "done"
            /\ UNCHANGED <<params_copy, total, i, workers>>
       ELSE /\ total' = resp.data.total
            /\ params_copy' = Put(params_copy, "pageSize", PageSize)
            /\ workers' = [w \in 1..PoolProcesses(pool_size) |-> Idle]
            /\ i' = 1
            /\ pc' = "dispatch"
            /\ UNCHANGED ret
    /\ UNCHANGED <<queryVars, clientVars, op, params, sort, pool_size,
                   responses, submitted, taskqueue, inqueue, results,
                   completed, requests, server_total>>

\* one iteration of the dispatch loop: current is reassigned in the shared
\* params_copy, and apply_async queues the task with a reference to it
Dispatch ==
    /\ pc = "dispatch"
    /\ i <= LastPage(total)
    /\ params_copy' = Put(params_copy, "current", i)
    /\ taskqueue' = Append(taskqueue, Len(responses) + 1)
    /\ responses' = Append(responses, Len(responses) + 1)
    /\ submitted' = Append(submitted, params_copy')
    /\ i' = i + 1
    /\ UNCHANGED <<queryVars, clientVars, pc, op, params, sort, pool_size,
                   total, inqueue, workers, results, completed, requests,
                   probe, ret, server_total>>

\* the pool's task handler thread takes the next task and pickles it for the
\* workers: the arguments are read now, not when apply_async was called
HandleTask ==
    /\ taskqueue # <<>>
    /\ inqueue' = Append(inqueue, [job |-> Head(taskqueue),
                                   params |-> params_copy,
                                   sort |-> sort])
    /\ taskqueue' = Tail(taskqueue)
    /\ UNCHANGED <<queryVars, clientVars, pc, op, params, sort, pool_size,
                   params_copy, total, i, responses, submitted, workers,
                   results, completed, requests, probe, ret, server_total>>

\* an idle worker process takes a task and runs get_data up to the GET
WorkerTake(w) ==
    /\ w \in DOMAIN workers
    /\ workers[w] = Idle
    /\ inqueue # <<>>
    /\ workers' = [workers EXCEPT ![w] = Head(inqueue)]
    /\ inqueue' = Tail(inqueue)
    /\ requests' = Append(requests, Request(Head(inqueue).params,
                                            Head(inqueue).sort))
    /\ UNCHANGED <<queryVars, clientVars, pc, op, params, sort, pool_size,
                   params_copy, total, i, responses, submitted, taskqueue,
                   results, completed, probe, ret, server_total>>

\* what the server may answer to the request worker w has in flight
WorkerResponses(w) ==
    IF workers[w] = Idle THEN {} ELSE ServerResponses(workers[w].params)

\* the response arrives; get_data returns it and the AsyncResult is set
WorkerResponse(w, resp) ==
    /\ w \in DOMAIN workers
    /\ workers[w] # Idle
    /\ resp \in WorkerResponses(w)
    /\ results' = Put(results, workers[w].job, resp)
    /\ completed' = Append(completed, workers[w].job)
    /\ workers' = [workers EXCEPT ![w] = Idle]
    /\ UNCHANGED <<queryVars, clientVars, pc, op, params, sort, pool_size,
                   params_copy, total, i, responses, submitted, taskqueue,
                   inqueue, requests, probe, ret, server_total>>

\* a variant of ResultOrder: the results are read as they arrive
CompletionOrder == completed

\* the order in which the merge loop reads the results
ResultOrder == responses

\* data.extend(response.get()["data"]["rows"]) for the jobs of order from k on
RECURSIVE Extend(_, _, _)
Extend(order, k, data) ==
    IF k > Len(order) THEN Returns(data)
    ELSE LET r == results[order[k]]
         IN  IF ~(Has(r, "data") /\ Has(r.data, "rows"))
             THEN Raises("KeyError")
             ELSE Extend(order, k + 1, data \o r.data.rows)

\* pool.join() returns once every task has run
AllTasksDone ==
    /\ taskqueue = <<>>
    /\ inqueue = <<>>
    /\ \A w \in DOMAIN workers : workers[w] = Idle

\* pool.close(), pool.join(), the merge loop and the return
Merge ==
    /\ pc = "dispatch"
    /\ i > LastPage(total)
    /\ AllTasksDone
    /\ ret' = Extend(ResultOrder, 1, <<>>)
    /\ pc' = "done"
    /\ UNCHANGED <<queryVars, clientVars, op, params, sort, pool_size,
                   params_copy, total, i, responses, submitted, taskqueue,
                   inqueue, workers, results, completed, requests, probe,
                   server_total>>

----------------------------------------------------------------------------
(* The client: one call on a client constructed from a key *)

SampleKey == [k \in 1..KeyLen |-> IF k % 2 = 0 THEN "a" ELSE "0"]

Totals == {50 * h : h \in 0..MaxHalfPages}

\* the calls made: (params, sort, pool_size), pool_size 0 standing for None
Calls ==
    {<<NoneArg, "asc", 0>>,
     <<DictArg(Put(Put(EmptyDict, "pageSize", 7), "current", 5)), "desc", 1>>,
     <<DictArg(Put(EmptyDict, "current", 2)), "asc", 2>>,
     <<NoneArg, "ascending", 0>>,
     <<DictArg(EmptyDict), "", 1>>,
     <<ListArg, "desc", 0>>}

Init ==
    /\ url = FormatUrl(SampleKey)
    /\ url_or_key = [type |-> "str", s |-> SampleKey]
    /\ logger_arg = "None"
    /\ logger = "None"
    /\ has_logger = FALSE
    /\ q_pc = "none"
    /\ query = NoQuery
    /\ json = NoReturn
    /\ pc = "idle"
    /\ op = "none"
    /\ params = NoneArg
    /\ sort = "asc"
    /\ pool_size = 0
    /\ params_copy = EmptyDict
    /\ total = 0
    /\ i = 0
    /\ responses = <<>>
    /\ submitted = <<>>
    /\ taskqueue = <<>>
    /\ inqueue = <<>>
    /\ workers = <<>>
    /\ results = EmptyDict
    /\ completed = <<>>
    /\ requests = <<>>
    /\ probe = NoResponse
    /\ ret = NoReturn
    /\ server_total \in Totals

Next ==
    \/ \E c \in Calls : CallGetData(c[1], c[2])
    \/ \E resp \in ServerResponses(params_copy) : GetDataResponse(resp)
    \/ \E c \in Calls : CallGetAllData(c[1], c[2], c[3])
    \/ \E resp \in ServerResponses(params_copy) : ProbeResponse(resp)
    \/ Dispatch
    \/ HandleTask
    \/ \E w \in DOMAIN workers : WorkerTake(w)
    \/ \E w \in DOMAIN workers :
          \E resp \in WorkerResponses(w) : WorkerResponse(w, resp)
    \/ Merge

Spec == Init /\ [][Next]_vars

----------------------------------------------------------------------------
(* The construction of a client *)

\* strings of up to MaxStrLen characters are tried as keys
MaxStrLen == 34

StrArg(s) == [type |-> "str", s |-> s]

IntArg == [type |-> "int", s |-> <<>>]

\* SampleKey with the character at one position replaced
KeyChars == {"0", "9", "a", "f", "g", "A", "F", "/"}

KeyVariants ==
    {[k \in 1..KeyLen |-> IF k = pos THEN c ELSE SampleKey[k]] :
        pos \in 1..KeyLen, c \in KeyChars}

\* strings of hexadecimal digits of every length up to MaxStrLen
HexStrings == {[k \in 1..n |-> "a"] : n \in 0..MaxStrLen}

\* urls of the export API, and strings that nearly are
UrlLike ==
    {ApiPrefix,
     FormatUrl(SampleKey),
     ApiPrefix \o <<"x">>,
     SubSeq(ApiPrefix, 1, Len(ApiPrefix) - 1),
     SubSeq(ApiPrefix, 1, KeyLen),
     <<"x">> \o ApiPrefix,
     Tail(ApiPrefix) \o <<"/">>}

UrlOrKeyArgs ==
    {StrArg(s) : s \in KeyVariants \cup HexStrings \cup UrlLike} \cup {IntArg}

LoggerArgs == {"None", "Logger", "str"}

InitNew ==
    /\ url = NoClient
    /\ url_or_key = IntArg
    /\ logger_arg = "None"
    /\ logger = "None"
    /\ has_logger = FALSE
    /\ q_pc = "none"
    /\ query = NoQuery
    /\ json = NoReturn
    /\ pc = "new"
    /\ op = "none"
    /\ params = NoneArg
    /\ sort = "asc"
    /\ pool_size = 0
    /\ params_copy = EmptyDict
    /\ total = 0
    /\ i = 0
    /\ responses = <<>>
    /\ submitted = <<>>
    /\ taskqueue = <<>>
    /\ inqueue = <<>>
    /\ workers = <<>>
    /\ results = EmptyDict
    /\ completed = <<>>
    /\ requests = <<>>
    /\ probe = NoResponse
    /\ ret = NoReturn
    /\ server_total = 0

NextNew == \E arg \in UrlOrKeyArgs, lg \in LoggerArgs : New(arg, lg)

SpecNew == InitNew /\ [][NextNew]_vars

----------------------------------------------------------------------------
(* Python values handled by param.py, and json.dumps *)

PyNone == [t |-> "None"]

PyInt(n) == [t |-> "int", n |-> n]

PyStr(s) == [t |-> "str", s |-> s]

PyList(l) == [t |-> "list", l |-> l]

\* a dict: its items <<key, value>> in insertion order, the keys strs
PyDict(d) == [t |-> "dict", d |-> d]

\* d[key] = value: a key already present keeps its place
RECURSIVE DictSet(_, _, _)
DictSet(d, key, value) ==
    IF d = <<>> THEN <<<<key, value>>>>
    ELSE IF Head(d)[1] = key THEN <<<<key, value>>>> \o Tail(d)
    ELSE <<Head(d)>> \o DictSet(Tail(d), key, value)

\* the dict holding the items of d, then those of more
RECURSIVE DictUpdate(_, _)
DictUpdate(d, more) ==
    IF more = <<>> THEN d
    ELSE DictUpdate(DictSet(d, Head(more)[1], Head(more)[2]), Tail(more))

\* the characters of a str as they stand between the quotes of a JSON string
RECURSIVE Escape(_)
Escape(s) ==
    IF s = <<>> THEN <<>>
    ELSE (IF Head(s) \in {"\"", "\\"} THEN <<"\\", Head(s)>> ELSE <<Head(s)>>)
         \o Escape(Tail(s))

\* json.dumps(v): the text, with ", " and ": " as the separators
RECURSIVE Dumps(_), DumpsItems(_, _), DumpsMembers(_, _)
Dumps(v) ==
    CASE v.t = "None" -> <<"null">>
      [] v.t = "int"  -> <<ToString(v.n)>>
      [] v.t = "str"  -> <<"\"">> \o Escape(v.s) \o <<"\"">>
      [] v.t = "list" -> <<"[">> \o DumpsItems(v.l, 1) \o <<"]">>
      [] v.t = "dict" -> <<"{">> \o DumpsMembers(v.d, 1) \o <<"}">>

DumpsItems(l, k) ==
    IF k > Len(l) THEN <<>>
    ELSE (IF k > 1 THEN <<", ">> ELSE <<>>) \o Dumps(l[k]) \o DumpsItems(l, k + 1)

DumpsMembers(d, k) ==
    IF k > Len(d) THEN <<>>
    ELSE (IF k > 1 THEN <<", ">> ELSE <<>>)
         \o Dumps(PyStr(d[k][1])) \o <<": ">> \o Dumps(d[k][2])
         \o DumpsMembers(d, k + 1)

----------------------------------------------------------------------------
(* param.py: QuestionFilter, Param, Sort, Query *)

\* the largest page_size Param accepts
MaxPageSize == 100

\* QuestionFilter(question, answer)
NewQuestionFilter(question, answer) ==
    IF question.t \notin {"Question", "str"} THEN Raises("TypeError")
    ELSE IF answer.t \notin {"int", "float", "str", "list"} THEN Raises("TypeError")
    ELSE IF answer.t = "list" /\ \E k \in 1..Len(answer.l) : answer.l[k].t # "str"
    THEN Raises("TypeError")
    ELSE Returns([t |-> "QuestionFilter", question |-> question,
                  answer_filter |-> answer])

\* QuestionFilter.get_id, for a question given as a str
get_id(f) == f.question.s

\* QuestionFilter.get_answer
get_answer(f) == f.answer_filter

\* Param(current, page_size, account, user_organization, by_question)
NewParam(current, page_size, account, user_organization, by_question) ==
    IF current.t # "int" THEN Raises("TypeError")
    ELSE IF page_size.t # "int" THEN Raises("TypeError")
    ELSE IF account.t # "None" /\ account.t # "str" THEN Raises("TypeError")
    ELSE IF user_organization.t # "None" /\ user_organization.t # "str"
    THEN Raises("TypeError")
    ELSE IF by_question.t # "None" /\ by_question.t # "list"
    THEN Raises("TypeError")
    ELSE IF current.n < 0 THEN Raises("ValueError")
    ELSE IF page_size.n < 0 \/ page_size.n > MaxPageSize THEN Raises("ValueError")
    ELSE IF /\ by_question.t # "None"
            /\ \E k \in 1..Len(by_question.l) :
                  by_question.l[k].t # "QuestionFilter"
    THEN Raises("TypeError")
    ELSE Returns([t |-> "Param", current |-> current, page_size |-> page_size,
                  account |-> account, user_organization |-> user_organization,
                  by_question |-> by_question])

\* {q.get_id(): q.get_answer() for q in by_question}, as items
FilterItems(l) == [k \in 1..Len(l) |-> <<get_id(l[k]), get_answer(l[k])>>]

\* Param.to_json: iterating over a by_question of None raises TypeError
ParamToJson(p) ==
    IF p.by_question.t = "None" THEN Raises("TypeError")
    ELSE Returns(PyStr(Dumps(PyDict(
            DictUpdate(<<>>,
                <<<< <<"current">>, p.current >>,
                  << <<"pageSize">>, p.page_size >>,
                  << <<"account">>, p.account >>,
                  << <<"user_organization">>, p.user_organization >>>>
                \o FilterItems(p.by_question.l))))))

\* Sort(should_desc)
NewSort(should_desc) ==
    [t |-> "Sort", id |-> IF should_desc THEN <<"desc">> ELSE <<"asc">>]

\* Sort.to_json: a dict, not a str
SortToJson(st) == PyDict(<<<< <<"id">>, PyStr(st.id) >>>>)

\* Query(param, sort)
NewQuery(param, st) == [t |-> "Query", param |-> param, sort |-> st]

\* Query.to_json
QueryToJson(q) ==
    LET pj == ParamToJson(q.param)
    IN  IF pj.kind = "raise" THEN pj
        ELSE Returns(PyStr(Dumps(PyDict(
                <<<< <<"params">>, pj.val >>,
                  << <<"sort">>, SortToJson(q.sort) >>>>))))

\* q = Query(Param(c, ps, acc, org, bq), Sort(sd))
BuildQuery(c, ps, acc, org, bq, sd) ==
    /\ q_pc = "start"
    /\ LET p == NewParam(c, ps, acc, org, bq)
       IN  IF p.kind = "raise"
           THEN /\ ret' = p
                /\ q_pc' = "raised"
                /\ UNCHANGED query
           ELSE /\ query' = NewQuery(p.val, NewSort(sd))
                /\ q_pc' = "built"
                /\ UNCHANGED ret
    /\ UNCHANGED <<clientVars, callVars, pc, json>>

\* q.set_param(p)
SetParam(p) ==
    /\ q_pc = "built"
    /\ IF p.t # "Param"
       THEN /\ ret' = Raises("TypeError")
            /\ q_pc' = "raised"
            /\ UNCHANGED query
       ELSE /\ query' = [query EXCEPT !.param = p]
            /\ UNCHANGED <<q_pc, ret>>
    /\ UNCHANGED <<clientVars, callVars, pc, json>>

\* q.set_sort(st)
SetSort(st) ==
    /\ q_pc = "built"
    /\ IF st.t # "Sort"
       THEN /\ ret' = Raises("TypeError")
            /\ q_pc' = "raised"
            /\ UNCHANGED query
       ELSE /\ query' = [query EXCEPT !.sort = st]
            /\ UNCHANGED <<q_pc, ret>>
    /\ UNCHANGED <<clientVars, callVars, pc, json>>

\* q.to_json()
ToJson ==
    /\ q_pc = "built"
    /\ json' = QueryToJson(query)
    /\ q_pc' = "json"
    /\ UNCHANGED <<clientVars, callVars, pc, ret, query>>

----------------------------------------------------------------------------
(* The use of a Query *)

\* the integers tried as current and page_size run up to MaxInt
MaxInt == 101

Str1(w) == PyStr(<<w>>)

Answers == {PyInt(1), Str1("yes"), PyList(<<Str1("a"), Str1("b")>>), PyList(<<>>),
            PyList(<<PyInt(1)>>), PyNone}

Questions == {Str1("q1"), Str1("q2"), Str1("current"), PyInt(1)}

\* every QuestionFilter that can be constructed from Questions and Answers
Filters ==
    {NewQuestionFilter(q, a).val :
        <<q, a>> \in {qa \in Questions \X Answers :
                        NewQuestionFilter(qa[1], qa[2]).kind = "value"}}

FilterOf(q, a) == NewQuestionFilter(Str1(q), a).val

Currents == {PyInt(-1), PyInt(0), PyInt(3), Str1("1")}

PageSizes == {PyInt(-1), PyInt(0), PyInt(20), PyInt(MaxPageSize), PyInt(MaxInt)}

Accounts == {PyNone, PyStr(<<"u", "\"", "1">>)}

Organizations == {PyNone, Str1("org"), PyInt(1)}

ByQuestions ==
    {PyNone, PyInt(1), PyList(<<>>), PyList(<<PyInt(1)>>)}
    \cup {PyList(<<f>>) : f \in Filters}
    \cup {PyList(<<FilterOf("q1", PyInt(1)), FilterOf("q2", Str1("yes"))>>),
          PyList(<<FilterOf("q1", PyInt(1)), FilterOf("q1", Str1("yes"))>>)}

\* Param(), Param(by_question=[]), Param(1, 100, by_question=[]), and None
ParamArgs ==
    {NewParam(PyInt(0), PyInt(20), PyNone, PyNone, PyNone).val,
     NewParam(PyInt(0), PyInt(20), PyNone, PyNone, PyList(<<>>)).val,
     NewParam(PyInt(1), PyInt(MaxPageSize), PyNone, PyNone, PyList(<<>>)).val,
     PyNone}

SortArgs == {NewSort(TRUE), NewSort(FALSE), PyNone}

InitQuery ==
    /\ url = FormatUrl(SampleKey)
    /\ url_or_key = StrArg(SampleKey)
    /\ logger_arg = "None"
    /\ logger = "None"
    /\ has_logger = FALSE
    /\ q_pc = "start"
    /\ query = NoQuery
    /\ json = NoReturn
    /\ pc = "idle"
    /\ op = "none"
    /\ params = NoneArg
    /\ sort = "asc"
    /\ pool_size = 0
    /\ params_copy = EmptyDict
    /\ total = 0
    /\ i = 0
    /\ responses = <<>>
    /\ submitted = <<>>
    /\ taskqueue = <<>>
    /\ inqueue = <<>>
    /\ workers = <<>>
    /\ results = EmptyDict
    /\ completed = <<>>
    /\ requests = <<>>
    /\ probe = NoResponse
    /\ ret = NoReturn
    /\ server_total = 0

NextQuery ==
    \/ \E c \in Currents, ps \in PageSizes, acc \in Accounts,
          org \in Organizations, bq \in ByQuestions, sd \in BOOLEAN :
          BuildQuery(c, ps, acc, org, bq, sd)
    \/ \E p \in ParamArgs : SetParam(p)
    \/ \E st \in SortArgs : SetSort(st)
    \/ ToJson

SpecQuery == InitQuery /\ [][NextQuery]_vars

----------------------------------------------------------------------------
(* Properties of get_data and get_all_data *)

\* the page requests of a get_all_data call: every request after the probe
PageRequests == SubSeq(requests, 2, Len(requests))

\* the probe's response has arrived and carries success = true
ProbeSucceeded == "success" \in DOMAIN probe /\ probe.success = TRUE

\* a get_all_data call has returned after a successful probe
AllDataDone == op = "get_all_data" /\ pc = "done" /\ ProbeSucceeded

\* the caller supplied pageSize and current of its own
CallerOverrides == Has(params.d, "pageSize") /\ Has(params.d, "current")

\* C1 as stated: after a successful probe reporting total = T, exactly
\* ceil(T/100)+1 page requests are made, each with pageSize = 100, with
\* current taking the values 1..ceil(T/100)+1; T = 250 gives 4 page requests.
C1_CeilPlusOne ==
    AllDataDone =>
        LET n == Len(PageRequests)
        IN  /\ (n - 2) * 100 < total /\ total <= (n - 1) * 100
            /\ \A k \in 1..n : PageRequests[k].params["pageSize"] = 100
            /\ {PageRequests[k].params["current"] : k \in 1..n} = 1..n
            /\ (total = 250 => n = 4)

\* C1 amended: after a successful probe reporting total = T, exactly
\* floor(T/100)+1 tasks are submitted and as many page requests are made, each
\* request with pageSize = 100; the k-th task is submitted with pageSize = 100
\* and current = k, whatever the caller supplied; T = 250 gives 3 page requests.
C1_FloorPlusOne ==
    AllDataDone =>
        LET n == Len(PageRequests)
        IN  /\ (n - 1) * 100 <= total /\ total < n * 100
            /\ Len(submitted) = n
            /\ \A k \in 1..n :
                  /\ PageRequests[k].params["pageSize"] = 100
                  /\ submitted[k]["pageSize"] = 100
                  /\ submitted[k]["current"] = k
            /\ (total = 250 => n = 3)

\* C1: a call whose caller supplied pageSize and current has returned after
\* a probe reporting total = 250, three page requests made
C1_Witness ==
    /\ AllDataDone
    /\ CallerOverrides
    /\ total = 250
    /\ Len(PageRequests) = 3
    /\ submitted[3]["current"] = 3

\* C2 as stated: when the probe succeeds and reports total = 0, the probe
\* (pageSize = 1, current = 1) is the only request and the empty list is
\* returned.
C2_ProbeOnly ==
    (AllDataDone /\ total = 0) =>
        /\ Len(requests) = 1
        /\ requests[1].params["pageSize"] = 1
        /\ requests[1].params["current"] = 1
        /\ ret = Returns(<<>>)

\* C2 amended: when the probe succeeds and reports total = 0, exactly two
\* requests are made, the probe (pageSize = 1, current = 1) and one page
\* request (pageSize = 100, current = 1), and a list that is returned is that
\* page's rows, the empty list.
C2_ProbeAndOnePage ==
    (AllDataDone /\ total = 0) =>
        /\ Len(requests) = 2
        /\ requests[1].params["pageSize"] = 1
        /\ requests[1].params["current"] = 1
        /\ requests[2].params["pageSize"] = 100
        /\ requests[2].params["current"] = 1
        /\ ret.kind = "value" => (ret.val = results[1].data.rows /\ ret.val = <<>>)

\* C2: a call has returned the empty list after a probe reporting total = 0
\* and one page request
C2_Witness ==
    /\ AllDataDone
    /\ total = 0
    /\ Len(requests) = 2
    /\ ret = Returns(<<>>)

\* the probe's response has arrived and does not carry success = true
ProbeFailed == op = "get_all_data" /\ probe # NoResponse /\ ~ProbeSucceeded

\* C3: when the probe's response has success = false or no success field,
\* get_all_data returns the empty list without raising, and the probe is the
\* only request of the call: nothing is queued or in flight when it returns.
C3_ProbeFailure ==
    ProbeFailed =>
        /\ pc = "done"
        /\ ret = Returns(<<>>)
        /\ Len(requests) = 1
        /\ taskqueue = <<>> /\ inqueue = <<>> /\ responses = <<>>
        /\ \A w \in DOMAIN workers : workers[w] = Idle

\* C3: a call has returned the empty list after a probe with success = false
C3_Witness ==
    /\ ProbeFailed
    /\ Has(probe, "success")
    /\ pc = "done"
    /\ ret = Returns(<<>>)
    /\ Len(requests) = 1

\* C4: a call of get_data or get_all_data with a sort other than "asc" and
\* "desc" raises ValueError, and no request has been issued.
C4_SortCheck ==
    (op \in {"get_data", "get_all_data"} /\ sort # "asc" /\ sort # "desc") =>
        /\ pc = "done"
        /\ ret = Raises("ValueError")
        /\ requests = <<>>

\* C4: get_all_data called with valid params and the sort "ascending" has
\* raised ValueError
C4_Witness ==
    /\ op = "get_all_data"
    /\ ParamsValid(params)
    /\ sort = "ascending"
    /\ ret = Raises("ValueError")
    /\ requests = <<>>

\* every page response carries data.rows
PagesOk ==
    \A j \in 1..Len(responses) :
        j \in DOMAIN results /\ Has(results[j], "data") /\ Has(results[j].data, "rows")

\* the rows of the responses of jobs 1..n, in the order of submission
RECURSIVE RowsInSubmissionOrder(_)
RowsInSubmissionOrder(n) ==
    IF n = 0 THEN <<>>
    ELSE RowsInSubmissionOrder(n - 1) \o results[n].data.rows

RECURSIVE SumOfPageLengths(_)
SumOfPageLengths(n) ==
    IF n = 0 THEN 0
    ELSE SumOfPageLengths(n - 1) + Len(results[n].data.rows)

\* C5: when the probe and every page request succeed, the list returned is
\* the concatenation of the pages' rows in the order the tasks were
\* submitted, in whatever order the workers completed; its length is the sum
\* of the pages' lengths, 150 for pages of 100 and 50 rows.
C5_SubmissionOrder ==
    (AllDataDone /\ PagesOk) =>
        /\ ret.kind = "value"
        /\ ret.val = RowsInSubmissionOrder(Len(responses))
        /\ Len(ret.val) = SumOfPageLengths(Len(responses))
        /\ (/\ Len(responses) = 2
            /\ Len(results[1].data.rows) = 100
            /\ Len(results[2].data.rows) = 50) => Len(ret.val) = 150

\* C5: pages of 100 and 50 rows, the second completed before the first, are
\* merged into 150 rows
C5_Witness ==
    /\ AllDataDone
    /\ PagesOk
    /\ total = 150
    /\ completed = <<2, 1>>
    /\ Len(results[1].data.rows) = 100
    /\ Len(results[2].data.rows) = 50
    /\ Len(ret.val) = 150

\* the number of page requests in flight
InFlight == Cardinality({w \in DOMAIN workers : workers[w] # Idle})

\* C6: with pool_size = k at most k page requests are in flight at any moment
\* (none at once with another when k = 1); only with pool_size None is the
\* pool as large as the CPU count.
C6_PoolSizeBounds ==
    (op = "get_all_data" /\ pool_size # 0) =>
        InFlight <= pool_size

\* some response of the call, the probe's or a page's, is a bad response
SomeBadResponse ==
    \/ probe \in BadResponses
    \/ \E j \in DOMAIN results : results[j] \in BadResponses

\* C7: a bad response to the probe or to any page request makes get_all_data
\* return the empty list without raising.
C7_BadResponseGivesEmptyList ==
    (op = "get_all_data" /\ pc = "done" /\ SomeBadResponse) =>
        ret = Returns(<<>>)

\* C10: every task runs with the parameters as they were when it was
\* submitted, so that the page indices requested are 1..N, each exactly once.
C10_OwnCopyPerTask ==
    /\ \A k \in 1..Len(inqueue) : inqueue[k].params = submitted[inqueue[k].job]
    /\ \A w \in DOMAIN workers :
          workers[w] # Idle => workers[w].params = submitted[workers[w].job]
    /\ AllDataDone =>
          \A c \in 1..Len(submitted) :
              Cardinality({k \in 1..Len(PageRequests) :
                              PageRequests[k].params["current"] = c}) = 1

----------------------------------------------------------------------------
(* Properties of the constructor *)

\* a string of 32 characters, each a lowercase hexadecimal digit
HexKey(s) ==
    /\ Len(s) = 32
    /\ \A k \in 1..Len(s) :
          s[k] \in {"0", "1", "2", "3", "4", "5", "6", "7", "8", "9",
                    "a", "b", "c", "d", "e", "f"}

\* the template with the key substituted
UrlOfKey(s) ==
    <<"h", "t", "t", "p", "s", ":", "/", "/", "w", "j", ".", "s", "j", "t",
      "u", ".", "e", "d", "u", ".", "c", "n", "/", "a", "p", "i", "/", "v",
      "1", "/", "p", "u", "b", "l", "i", "c", "/", "e", "x", "p", "o", "r",
      "t", "/">> \o s \o <<"/", "j", "s", "o", "n">>

\* the string begins with "https://wj.sjtu.edu.cn/api/v1/public/export/"
HasApiPrefix(s) == Len(s) >= 44 /\ SubSeq(UrlOfKey(<<>>), 1, 44) = SubSeq(s, 1, 44)

\* the constructor was called with a string, and a logger it accepts
ConstructedFromStr ==
    pc # "new" /\ url_or_key.type = "str" /\ logger_arg \in {"None", "Logger"}

\* C8 as stated: constructing from a valid 32-character hex key sets url to
\* the template with the key substituted; constructing from any other string
\* raises and yields no client.
C8_KeyOrFail ==
    ConstructedFromStr =>
        IF HexKey(url_or_key.s)
        THEN pc = "idle" /\ url = UrlOfKey(url_or_key.s)
        ELSE pc = "raised" /\ ret.kind = "raise" /\ url = NoClient

\* C8 amended: constructing from a valid 32-character hex key sets url to the
\* template with the key substituted; constructing from a string that starts
\* with the API's url prefix sets url to that string; constructing from any
\* other string raises ValueError and yields no client.
C8_KeyUrlOrFail ==
    ConstructedFromStr =>
        IF HexKey(url_or_key.s)
        THEN pc = "idle" /\ url = UrlOfKey(url_or_key.s)
        ELSE IF HasApiPrefix(url_or_key.s)
        THEN pc = "idle" /\ url = url_or_key.s
        ELSE pc = "raised" /\ ret = Raises("ValueError") /\ url = NoClient

\* C8: a client constructed from a valid key holding the digit f
C8_Witness ==
    /\ ConstructedFromStr
    /\ HexKey(url_or_key.s)
    /\ pc = "idle"
    /\ url = UrlOfKey(url_or_key.s)
    /\ \E k \in 1..32 : url_or_key.s[k] = "f"

----------------------------------------------------------------------------
(* Properties of Query.to_json *)

\* the integers a JSON text of the model may hold
JsonInts == -1..MaxInt

\* json.loads: the value at position k of the text x, and the position after it
RECURSIVE ParseValue(_, _), ParseChars(_, _, _), ParseItems(_, _, _),
          ParseMembers(_, _, _)
ParseValue(x, k) ==
    CASE x[k] = "null" -> [v |-> PyNone, next |-> k + 1]
      [] x[k] = "\""   -> ParseChars(x, k + 1, <<>>)
      [] x[k] = "["    -> IF x[k + 1] = "]"
                          THEN [v |-> PyList(<<>>), next |-> k + 2]
                          ELSE ParseItems(x, k + 1, <<>>)
      [] x[k] = "{"    -> IF x[k + 1] = "}"
                          THEN [v |-> PyDict(<<>>), next |-> k + 2]
                          ELSE ParseMembers(x, k + 1, <<>>)
      [] OTHER         -> [v |-> PyInt(CHOOSE n \in JsonInts : ToString(n) = x[k]),
                           next |-> k + 1]

ParseChars(x, k, acc) ==
    IF x[k] = "\"" THEN [v |-> PyStr(acc), next |-> k + 1]
    ELSE IF x[k] = "\\" THEN ParseChars(x, k + 2, Append(acc, x[k + 1]))
    ELSE ParseChars(x, k + 1, Append(acc, x[k]))

ParseItems(x, k, acc) ==
    LET e == ParseValue(x, k)
    IN  IF x[e.next] = ", "
        THEN ParseItems(x, e.next + 1, Append(acc, e.v))
        ELSE [v |-> PyList(Append(acc, e.v)), next |-> e.next + 1]

ParseMembers(x, k, acc) ==
    LET key == ParseValue(x, k)
        val == ParseValue(x, key.next + 1)
    IN  IF x[val.next] = ", "
        THEN ParseMembers(x, val.next + 1, DictSet(acc, key.v.s, val.v))
        ELSE [v |-> PyDict(DictSet(acc, key.v.s, val.v)), next |-> val.next + 1]

Loads(x) == ParseValue(x, 1).v

\* the value of key in the dict d
RECURSIVE DictGet(_, _)
DictGet(d, key) == IF Head(d)[1] = key THEN Head(d)[2] ELSE DictGet(Tail(d), key)

DictKeys(d) == {d[k][1] : k \in 1..Len(d)}

\* the param map of a Param: its four fields, then the filters by question id
ParamMap(p) ==
    PyDict(DictUpdate(
        <<<< <<"current">>, p.current >>,
          << <<"pageSize">>, p.page_size >>,
          << <<"account">>, p.account >>,
          << <<"user_organization">>, p.user_organization >>>>,
        IF p.by_question.t = "None" THEN <<>>
        ELSE [k \in 1..Len(p.by_question.l) |->
                 <<p.by_question.l[k].question.s,
                   p.by_question.l[k].answer_filter>>]))

\* the sort map of a Sort
SortMap(st) == PyDict(<<<< <<"id">>, PyStr(st.id) >>>>)

\* C9: Query.to_json of every constructible Query, one whose Param has the
\* default by_question included, is a JSON object with exactly the keys params
\* and sort, both values JSON-encoded strings; decoding the object and then
\* each string gives back the param map and the sort map.
C9_DoubleEncodedRoundTrip ==
    q_pc = "json" =>
        /\ json.kind = "value"
        /\ LET o == Loads(json.val.s)
           IN  /\ o.t = "dict"
               /\ Len(o.d) = 2
               /\ DictKeys(o.d) = {<<"params">>, <<"sort">>}
               /\ DictGet(o.d, <<"params">>).t = "str"
               /\ DictGet(o.d, <<"sort">>).t = "str"
               /\ Loads(DictGet(o.d, <<"params">>).s) = ParamMap(query.param)
               /\ Loads(DictGet(o.d, <<"sort">>).s) = SortMap(query.sort)

\* Loads inverts Dumps on what Query.to_json writes when by_question is a
\* list: params decodes to the param map, and sort is the sort map itself,
\* a JSON object
ParamRoundTrip ==
    (q_pc = "json" /\ query.param.by_question.t = "list") =>
        /\ json.kind = "value"
        /\ LET o == Loads(json.val.s)
           IN  /\ DictKeys(o.d) = {<<"params">>, <<"sort">>}
               /\ DictGet(o.d, <<"params">>).t = "str"
               /\ Loads(DictGet(o.d, <<"params">>).s) = ParamMap(query.param)
               /\ DictGet(o.d, <<"sort">>) = SortMap(query.sort)

====
